---- MODULE Spec2Model ----
(***************************************************************************)
(* A model of visualizer.py: the binary trajectory reader                  *)
(* (read_trajectory), the domain-colouring transform (complex_to_rgb) and  *)
(* the playback that main() sets up with matplotlib's FuncAnimation.       *)
(*                                                                         *)
(* The trajectory file is a 4-byte magic tag, three int32 words and a      *)
(* payload of 8-byte doubles, possibly followed by a few bytes of an       *)
(* unfinished double.  Offsets and sizes are kept in bytes.                *)
(***************************************************************************)
EXTENDS Integers, Sequences, FiniteSets, TLC

\* ---------------------------------------------------------------- bounds
\* Largest width / height written in a header (the smallest is -1).
MaxDim == 2
\* Largest declared frame count written in a header (the smallest is -1).
MaxCount == 5
\* Largest number of complete doubles in a payload.
MaxDoubles == 8
\* Largest number of bytes of an unfinished double at the end of a file.
MaxTail == 1
\* The payloads' sample patterns start at offsets 0..MaxSeed.
MaxSeed == 1
\* Largest |real| and |imag| part of a sample, as an integer mantissa.
MaxCoord == 2
\* Calls of update() after which the model lets the window only be closed.
MaxUpdates == 8

\* ------------------------------------------------------ program constants
\* struct.calcsize("iii")
HeaderLen == 12
\* bytes of one complex<double>: 8 real + 8 imag
BytesPerComplex == 16
\* bytes of one double
BytesPerDouble == 8

Magic == "SCHR"

Min(a, b) == IF a < b THEN a ELSE b

\* ------------------------------------------------------------- the files
\* The k-th double of a payload written with seed s: neighbouring doubles
\* differ, so a misplaced sample is visible.
Val(k) == (k % (2 * MaxCoord + 1)) - MaxCoord
Ramp(len, s) == [k \in 1..len |-> Val(s + k - 1)]

Dims == -1..MaxDim
Counts == -1..MaxCount

FullFiles ==
    { [exists |-> TRUE, magic |-> Magic, ints |-> <<w, h, n>>,
       payload |-> Ramp(len, s), tail |-> t] :
         w \in Dims, h \in Dims, n \in Counts,
         len \in 0..MaxDoubles, s \in 0..MaxSeed, t \in 0..MaxTail }

\* Files that end inside the header: fewer than three int32 words.
ShortHeaderFiles ==
    { [exists |-> TRUE, magic |-> Magic, ints |-> hs, payload |-> <<>>,
       tail |-> t] :
         hs \in {<<>>} \cup {<<w>> : w \in Dims}
                 \cup {<<w, h>> : w \in Dims, h \in Dims},
         t \in 0..MaxTail }

\* Files of another format ("ABCD" and a well-formed rest), and files shorter
\* than the magic tag.
BadMagicFiles ==
    { [exists |-> TRUE, magic |-> "ABCD", ints |-> <<1, 1, n>>,
       payload |-> Ramp(len, 0), tail |-> 0] :
         n \in 0..MaxCount, len \in 0..MaxDoubles }
    \cup { [exists |-> TRUE, magic |-> m, ints |-> <<>>, payload |-> <<>>,
            tail |-> 0] : m \in {"", "SCH"} }

MissingFiles ==
    { [exists |-> FALSE, magic |-> Magic, ints |-> <<>>, payload |-> <<>>,
       tail |-> 0] }

Files == FullFiles \cup ShortHeaderFiles \cup BadMagicFiles \cup MissingFiles

\* Bytes of the file after offset 16.
remainingBytes(f) == BytesPerDouble * Len(f.payload) + f.tail

\* ------------------------------------------------- numbers (complex_to_rgb)
\* A double is modelled as a decimal fixed-point mantissa m with a decimal
\* exponent e: the value m * 10^-4 * 10^-e.  File samples have e = 0 (small
\* integers); complex_to_rgb alone is also given samples scaled by 1e-9 and
\* 1e-10, which lie at and around its 1e-9 threshold.
Scale == 10^4
Pow10(n) == 10^n
Exps == {0, 9, 10}

Num(m, e) == [m |-> m, e |-> e]
Zero == Num(0, 0)
One == Num(Scale, 0)

\* x > y for two such numbers, without leaving 32 bits (mantissas stay below
\* 10^9, so a shift by more than 9 digits compares like one by 9).
Gt(x, y) ==
    IF x.e = y.e THEN x.m > y.m
    ELSE IF x.e < y.e
         THEN \* x.m * 10^d > y.m, d = y.e - x.e
              x.m > y.m \div Pow10(Min(y.e - x.e, 9))
         ELSE \* x.m > y.m * 10^d, d = x.e - y.e
              -((-x.m) \div Pow10(Min(x.e - y.e, 9))) > y.m

RECURSIVE ISqrtBetween(_, _, _)
\* The largest r in lo..hi with r*r <= n (lo*lo <= n).
ISqrtBetween(n, lo, hi) ==
    IF lo >= hi THEN lo
    ELSE LET mid == (lo + hi + 1) \div 2 IN
         IF mid * mid <= n THEN ISqrtBetween(n, mid, hi)
         ELSE ISqrtBetween(n, lo, mid - 1)

ISqrt(n) == ISqrtBetween(n, 0, 46340)

\* The program's calibration (lines 60, 73-75), as mantissas.
EpsExp == 9
PiMant == 31416
CoefRV == 15748
CoefGU == 1873
CoefGV == 4681
CoefBU == 18556

\* 1e-9
Eps == Num(Scale, EpsExp)

\* np.abs(z) of z = (re + i im) * 10^-e
Abs(z) == Num(ISqrt((z.re * z.re + z.im * z.im) * Scale * Scale), z.e)

\* Faulty variant of valid_mask: a >= 1e-9.
ValidMaskBoundaryIn(a) == Gt(a, Eps) \/ a = Eps
\* a > 1e-9
valid_mask(a) == Gt(a, Eps)

\* np.arctan(t) / np.pi for a mantissa 0 <= t <= Scale (0 <= atan argument
\* <= 1): atan(t) = (pi/4) t + t (1 - t) (0.2447 + 0.0663 t), within 0.0015.
AtanOverPiUnit(t) ==
    t \div 4 + (((t * (Scale - t)) \div Scale) * (779 + (211 * t) \div Scale)) \div Scale

\* np.arctan(a) / np.pi.  At e > 0 the amplitude is below 1e-8, where
\* arctan(a) = a to double precision; at e = 0 it is 0 or at least 1, where
\* arctan(a) = pi/2 - arctan(1/a).
ArctanOverPi(a) ==
    IF a.e > 0 THEN Num((a.m * Scale) \div PiMant, a.e)
    ELSE IF a.m <= Scale THEN Num(AtanOverPiUnit(a.m), 0)
    ELSE Num(Scale \div 2 - AtanOverPiUnit((Scale * Scale) \div a.m), 0)

\* Faulty variant of Clip: the channel scaled and clipped to 0..255.
ClipTo255(x) ==
    IF x.m < 0 THEN Zero
    ELSE IF Gt(Num(x.m * 255, x.e), Num(255 * Scale, 0)) THEN Num(255 * Scale, 0)
    ELSE Num(x.m * 255, x.e)
\* np.clip(x, 0, 1)
Clip(x) == IF Gt(Zero, x) THEN Zero ELSE IF Gt(x, One) THEN One ELSE x

\* complex_to_rgb for one element z = [re, im, e] of the array: its locals and
\* the clipped colour.  The division 0.5 * y / a is evaluated only where
\* valid_mask holds (divided); elsewhere y and scaled_z keep np.zeros_like.
ColorLocals(z) ==
    LET a == Abs(z)
        valid == valid_mask(a)
        y == IF valid THEN ArctanOverPi(a) ELSE Num(0, z.e)
        s == IF valid THEN ((y.m * Scale) \div a.m) \div 2 ELSE 0
        u == IF valid THEN (z.re * s) ELSE 0
        v == IF valid THEN (z.im * s) ELSE 0
        r == Num(y.m + (CoefRV * v) \div Scale, z.e)
        g == Num(y.m - (CoefGU * u) \div Scale - (CoefGV * v) \div Scale, z.e)
        b == Num(y.m + (CoefBU * u) \div Scale, z.e)
    IN [a |-> a, valid |-> valid, divided |-> valid, y |-> y,
        u |-> Num(u, z.e), v |-> Num(v, z.e),
        raw |-> <<r, g, b>>,
        rgb |-> <<Clip(r), Clip(g), Clip(b)>>]

complex_to_rgb(z) == ColorLocals(z).rgb

\* complex_to_rgb of a whole frame (file samples, e = 0)
FrameToRgb(frame) ==
    [r \in DOMAIN frame |->
        [c \in DOMAIN frame[r] |->
            complex_to_rgb([re |-> frame[r][c].re, im |-> frame[r][c].im, e |-> 0])]]

Samples ==
    { [re |-> x, im |-> y, e |-> e] :
        x \in -MaxCoord..MaxCoord, y \in -MaxCoord..MaxCoord, e \in Exps }

NoPixel == [none |-> TRUE]
NoImage == [none |-> TRUE]

VARIABLES
    file,         \* the file named on the command line
    pc,           \* where the program is
    off,          \* payload bytes consumed by f.read so far
    width, height, frame_count,   \* read_trajectory's locals
    i,            \* the loop index of read_trajectory
    frames,       \* the frames decoded so far, in order
    warnings,     \* the i of every "Warning: Incomplete frame {i}" printed
    outcome,      \* how read_trajectory ended: "running", "ok", or the error
    mode,         \* "none", then "save" (--save given) or "show"
    seqPos,       \* the next index the animation's frame sequence yields
    delivered,    \* indices update() got from the frame sequence, this pass
    updates,      \* calls of update() so far
    passes,       \* completed passes over the frame sequence
    img,          \* the image the axes hold: [idx, pixels], or NoImage
    accessed,     \* every index used in frames[...] by main and update
    sample,       \* complex_to_rgb alone: the sample given
    pixel         \* complex_to_rgb alone: its locals and result, or NoPixel

vars == <<file, pc, off, width, height, frame_count, i, frames, warnings,
          outcome, mode, seqPos, delivered, updates, passes, img, accessed,
          sample, pixel>>

readerVars == <<off, width, height, frame_count, i, frames, warnings, outcome>>
playVars == <<mode, seqPos, delivered, updates, passes, img, accessed>>
colorVars == <<sample, pixel>>

\* ------------------------------------------------------- read_trajectory
num_pixels(w, h) == w * h
\* Faulty variant of frame_size_bytes: the imaginary half forgotten.
FrameSizeMissingImag(w, h) == num_pixels(w, h) * BytesPerDouble
\* line 37
frame_size_bytes(w, h) == num_pixels(w, h) * BytesPerComplex

\* f.read(n) at payload offset o: how many bytes it returns.  A negative n
\* reads to the end of the file.
ReadLen(f, o, n) ==
    IF n < 0 THEN remainingBytes(f) - o ELSE Min(n, remainingBytes(f) - o)

\* The complete doubles among the cnt bytes at payload offset o.
ReadDoubles(f, o, cnt) ==
    SubSeq(f.payload, o \div BytesPerDouble + 1, (o + cnt) \div BytesPerDouble)

\* np.frombuffer(data, dtype=np.complex128): (real, imag) pairs in order; a
\* buffer that is no multiple of 16 bytes raises ValueError.
FromBufferOk(cnt) == cnt % BytesPerComplex = 0
FromBuffer(ds, cnt) ==
    [k \in 1..(cnt \div BytesPerComplex) |-> [re |-> ds[2 * k - 1], im |-> ds[2 * k]]]

\* arr.reshape(shape): the shape numpy resolves (one -1 is inferred), or
\* <<>> where it raises ValueError.
ReshapeShape(size, h, w) ==
    IF h >= 0 /\ w >= 0 THEN (IF h * w = size THEN <<h, w>> ELSE <<>>)
    ELSE IF h = -1 /\ w > 0 THEN (IF size % w = 0 THEN <<size \div w, w>> ELSE <<>>)
    ELSE IF w = -1 /\ h > 0 THEN (IF size % h = 0 THEN <<h, size \div h>> ELSE <<>>)
    ELSE <<>>

\* Faulty variant of Reshape: column-major (Fortran order) layout.
ReshapeColumnMajor(arr, shape) ==
    [r \in 1..shape[1] |-> [c \in 1..shape[2] |-> arr[(c - 1) * shape[1] + r]]]
\* Row-major (C order) layout of shape <<rows, cols>>: element (r, c), both
\* from 1, is arr[(r-1)*cols + c].
Reshape(arr, shape) ==
    [r \in 1..shape[1] |-> [c \in 1..shape[2] |-> arr[(r - 1) * shape[2] + c]]]

\* Faulty variant of ShortRead: only an empty read counts as short.
ShortReadOnlyIfEmpty(cnt, size) == cnt = 0 /\ size # 0
\* len(data) != frame_size_bytes
ShortRead(cnt, size) == cnt # size

\* line 21-23
CheckExists ==
    /\ pc = "exists"
    /\ IF file.exists
       THEN pc' = "magic" /\ outcome' = outcome
       ELSE pc' = "exit" /\ outcome' = "FileNotFound"
    /\ UNCHANGED <<file, off, width, height, frame_count, i, frames, warnings>>
    /\ UNCHANGED playVars /\ UNCHANGED colorVars

\* Faulty variant of MagicMismatch: the tag is not compared.
MagicMismatchNever(m) == FALSE
\* magic != b"SCHR"
MagicMismatch(m) == m # Magic

\* line 26-29: f.read(4) returns the tag, or less at the end of the file
ReadMagic ==
    /\ pc = "magic"
    /\ IF MagicMismatch(file.magic)
       THEN pc' = "exit" /\ outcome' = "BadMagic"
       ELSE pc' = "header" /\ outcome' = outcome
    /\ UNCHANGED <<file, off, width, height, frame_count, i, frames, warnings>>
    /\ UNCHANGED playVars /\ UNCHANGED colorVars

\* line 31-37: struct.unpack("iii", ...) raises struct.error on fewer than
\* 12 bytes
ReadHeader ==
    /\ pc = "header"
    /\ IF Len(file.ints) * 4 < HeaderLen
       THEN /\ pc' = "exit" /\ outcome' = "struct.error"
            /\ UNCHANGED <<width, height, frame_count, i, frames>>
       ELSE /\ width' = file.ints[1]
            /\ height' = file.ints[2]
            /\ frame_count' = file.ints[3]
            /\ frames' = <<>>
            /\ i' = 0
            /\ pc' = "loop" /\ outcome' = outcome
    /\ UNCHANGED <<file, off, warnings>>
    /\ UNCHANGED playVars /\ UNCHANGED colorVars

\* line 39-48: one iteration of the loop
ReadFrame ==
    /\ pc = "loop"
    /\ i < frame_count
    /\ LET size == frame_size_bytes(width, height)
           cnt == ReadLen(file, off, size)
           ds == ReadDoubles(file, off, cnt)
           shape == ReshapeShape(cnt \div BytesPerComplex, height, width)
       IN /\ off' = off + cnt
          /\ IF ShortRead(cnt, size)
             THEN /\ warnings' = Append(warnings, i)
                  /\ pc' = "return"
                  /\ UNCHANGED <<frames, i, outcome>>
             ELSE IF ~FromBufferOk(cnt) \/ shape = <<>>
             THEN /\ pc' = "exit" /\ outcome' = "ValueError"
                  /\ UNCHANGED <<frames, i, warnings>>
             ELSE /\ frames' = Append(frames, Reshape(FromBuffer(ds, cnt), shape))
                  /\ i' = i + 1
                  /\ UNCHANGED <<pc, warnings, outcome>>
    /\ UNCHANGED <<file, width, height, frame_count>>
    /\ UNCHANGED playVars /\ UNCHANGED colorVars

\* line 39: range(frame_count) is exhausted
LoopEnd ==
    /\ pc = "loop"
    /\ i >= frame_count
    /\ pc' = "return"
    /\ UNCHANGED <<file, off, width, height, frame_count, i, frames, warnings, outcome>>
    /\ UNCHANGED playVars /\ UNCHANGED colorVars

\* line 50
Return ==
    /\ pc = "return"
    /\ outcome' = "ok"
    /\ pc' = "check"
    /\ UNCHANGED <<file, off, width, height, frame_count, i, frames, warnings>>
    /\ UNCHANGED playVars /\ UNCHANGED colorVars

read_trajectory == CheckExists \/ ReadMagic \/ ReadHeader \/ ReadFrame \/ LoopEnd \/ Return

\* ------------------------------------------------------------------ main
\* frames[idx] (idx from 0); a bad index raises IndexError
HasFrame(idx) == idx >= 0 /\ idx < Len(frames)
FrameAt(idx) == frames[idx + 1]

\* Faulty variant of FramesEmpty: the check left out.
FramesEmptyUnchecked(fs) == FALSE
\* line 94: not frames
FramesEmpty(fs) == fs = <<>>

\* line 94-96
MainCheck ==
    /\ pc = "check"
    /\ pc' = IF FramesEmpty(frames) THEN "exit" ELSE "imshow"
    /\ UNCHANGED <<file>> /\ UNCHANGED readerVars
    /\ UNCHANGED playVars /\ UNCHANGED colorVars

\* line 98-105: the axes get the image of frames[0] (an image without
\* pixels, of a frame with width or height 0, is accepted and not drawn)
Imshow ==
    /\ pc = "imshow"
    /\ accessed' = accessed \cup {0}
    /\ IF HasFrame(0)
       THEN /\ img' = [idx |-> 0, pixels |-> FrameToRgb(FrameAt(0))]
            /\ pc' = "animate"
            /\ outcome' = outcome
       ELSE /\ pc' = "exit" /\ outcome' = "IndexError"
            /\ img' = img
    /\ UNCHANGED <<file, off, width, height, frame_count, i, frames, warnings>>
    /\ UNCHANGED <<mode, seqPos, delivered, updates, passes>>
    /\ UNCHANGED colorVars

\* line 107-110: update(frame_idx), as the animation calls it
update(frame_idx) ==
    /\ accessed' = accessed \cup {frame_idx}
    /\ updates' = updates + 1
    /\ IF HasFrame(frame_idx)
       THEN /\ img' = [idx |-> frame_idx, pixels |-> FrameToRgb(FrameAt(frame_idx))]
            /\ outcome' = outcome
       ELSE /\ img' = img
            /\ outcome' = "IndexError"

\* Faulty variant of Repeat: repeat=False.
RepeatOff == FALSE
\* FuncAnimation(fig, update, frames=len(frames), ...): repeat is left at
\* its default, True.
Repeat == TRUE
\* Faulty variant of SeqLen: one index too many.
SeqLenOneMore == Len(frames) + 1
\* frames=len(frames): the frame sequence is range(len(frames)).
SeqLen == Len(frames)

\* line 112-120: the animation is created; args.save decides between
\* ani.save and plt.show
Animate ==
    /\ pc = "animate"
    /\ \E save \in BOOLEAN :
         /\ mode' = IF save THEN "save" ELSE "show"
         /\ pc' = IF save THEN "save_init" ELSE "show_start"
    /\ seqPos' = 0
    /\ delivered' = <<>>
    /\ UNCHANGED <<file, updates, passes, img, accessed>>
    /\ UNCHANGED readerVars /\ UNCHANGED colorVars

\* FuncAnimation._init_draw (no init_func): draws the first frame of a new
\* frame sequence.  ani.save calls it before its loop, plt.show on the
\* first draw event of the figure.
InitDraw ==
    /\ pc \in {"save_init", "show_start"}
    /\ update(0)
    /\ pc' = IF pc = "save_init" THEN "saving" ELSE "showing"
    /\ UNCHANGED <<file, off, width, height, frame_count, i, frames, warnings>>
    /\ UNCHANGED <<mode, seqPos, delivered, passes>>
    /\ UNCHANGED colorVars

\* ani.save (line 118): the next frame of the sequence is drawn and grabbed
SaveFrame ==
    /\ pc = "saving"
    /\ seqPos < SeqLen
    /\ update(seqPos)
    /\ delivered' = Append(delivered, seqPos)
    /\ seqPos' = seqPos + 1
    /\ UNCHANGED <<file, pc, off, width, height, frame_count, i, frames, warnings>>
    /\ UNCHANGED <<mode, passes>>
    /\ UNCHANGED colorVars

\* ani.save: the sequence is exhausted, the file is written, main returns
SaveDone ==
    /\ pc = "saving"
    /\ seqPos >= SeqLen
    /\ pc' = "exit"
    /\ passes' = passes + 1
    /\ UNCHANGED <<file, mode, seqPos, delivered, updates, img, accessed>>
    /\ UNCHANGED readerVars /\ UNCHANGED colorVars

\* plt.show (line 120): a timer tick, Animation._step with a frame left
Tick ==
    /\ pc = "showing"
    /\ seqPos < SeqLen
    /\ updates < MaxUpdates
    /\ update(seqPos)
    /\ delivered' = Append(delivered, seqPos)
    /\ seqPos' = seqPos + 1
    /\ UNCHANGED <<file, pc, off, width, height, frame_count, i, frames, warnings>>
    /\ UNCHANGED <<mode, passes>>
    /\ UNCHANGED colorVars

\* plt.show: a timer tick with the sequence exhausted, TimedAnimation._step:
\* with repeat it draws the first frame again and starts a new sequence,
\* without it the timer is stopped.
EndOfSequence ==
    /\ pc = "showing"
    /\ seqPos >= SeqLen
    /\ updates < MaxUpdates
    /\ passes' = passes + 1
    /\ IF Repeat
       THEN /\ update(0)
            /\ seqPos' = 0
            /\ delivered' = <<>>
            /\ pc' = pc
       ELSE /\ pc' = "finished"
            /\ UNCHANGED <<seqPos, delivered, updates, img, accessed, outcome>>
    /\ UNCHANGED <<file, off, width, height, frame_count, i, frames, warnings>>
    /\ UNCHANGED <<mode>>
    /\ UNCHANGED colorVars

\* plt.show returns when the user closes the window
CloseWindow ==
    /\ pc \in {"show_start", "showing", "finished"}
    /\ pc' = "exit"
    /\ UNCHANGED <<file>> /\ UNCHANGED readerVars
    /\ UNCHANGED playVars /\ UNCHANGED colorVars

main ==
    \/ MainCheck \/ Imshow \/ Animate \/ InitDraw \/ SaveFrame \/ SaveDone
    \/ Tick \/ EndOfSequence \/ CloseWindow

Init ==
    /\ file \in Files
    /\ pc = "exists"
    /\ off = 0
    /\ width = 0 /\ height = 0 /\ frame_count = 0
    /\ i = 0
    /\ frames = <<>>
    /\ warnings = <<>>
    /\ outcome = "running"
    /\ mode = "none"
    /\ seqPos = 0
    /\ delivered = <<>>
    /\ updates = 0
    /\ passes = 0
    /\ img = NoImage
    /\ accessed = {}
    /\ sample = [re |-> 0, im |-> 0, e |-> 0]
    /\ pixel = NoPixel

Next == read_trajectory \/ main

Spec == Init /\ [][Next]_vars

\* ------------------------------------------- complex_to_rgb on its own
InitColor ==
    /\ sample \in Samples
    /\ pixel = NoPixel
    /\ pc = "color"
    /\ file = CHOOSE f \in MissingFiles : TRUE
    /\ off = 0
    /\ width = 0 /\ height = 0 /\ frame_count = 0
    /\ i = 0
    /\ frames = <<>>
    /\ warnings = <<>>
    /\ outcome = "running"
    /\ mode = "none"
    /\ seqPos = 0
    /\ delivered = <<>>
    /\ updates = 0
    /\ passes = 0
    /\ img = NoImage
    /\ accessed = {}

\* line 53-80 applied to a one-element array
Convert ==
    /\ pc = "color"
    /\ pixel' = ColorLocals(sample)
    /\ pc' = "color_done"
    /\ UNCHANGED <<file, sample>> /\ UNCHANGED readerVars /\ UNCHANGED playVars

NextColor == Convert

SpecColor == InitColor /\ [][NextColor]_vars

\* ---------------------------------------------------------------- claims
\* The header of the file as written: magic tag, width, height, count.
HeaderComplete == file.exists /\ file.magic = Magic /\ Len(file.ints) = 3
ValidHeader ==
    /\ HeaderComplete
    /\ file.ints[1] > 0 /\ file.ints[2] > 0 /\ file.ints[3] >= 0
frameByteSize == file.ints[1] * file.ints[2] * 16
HeaderRead == HeaderComplete /\ pc \notin {"exists", "magic", "header"}

\* C1: for a file with the magic tag, a complete header, width > 0,
\* height > 0 and declared count >= 0, read_trajectory returns, and the
\* number of frames it returns is
\* min(declared count, floor(remainingBytes / (width*height*16))).
C1_FrameCount ==
    ValidHeader =>
        /\ outcome \in {"running", "ok"}
        /\ outcome = "ok" =>
             Len(frames) = Min(file.ints[3], remainingBytes(file) \div frameByteSize)

\* C1's case: 5 frames declared, 2 complete frames and a part of a third in
\* the file, 2 returned.
C1_Witness ==
    /\ ValidHeader /\ outcome = "ok"
    /\ file.ints[3] = 5 /\ Len(frames) = 2
    /\ remainingBytes(file) % frameByteSize # 0

\* A read of the next frame comes back short: fewer bytes are left than
\* frame_size_bytes (or the size is negative, which no read can match).
ShortReadNext ==
    /\ pc = "loop" /\ i < frame_count
    /\ \/ width * height * 16 < 0
       \/ remainingBytes(file) - off < width * height * 16

\* C2: when the read of frame i is short (zero bytes included), the loop
\* stops at once without failing the load, one warning carrying i = the
\* number of frames decoded so far is emitted, and read_trajectory returns
\* exactly the frames decoded before, unchanged.
C2_ShortReadStops ==
    [][ /\ ShortReadNext =>
             /\ pc' = "return"
             /\ frames' = frames
             /\ warnings' = <<Len(frames)>>
             /\ outcome' = "running"
        /\ (pc = "return" /\ warnings # <<>>) =>
             /\ pc' = "check" /\ outcome' = "ok"
             /\ frames' = frames /\ warnings' = warnings
             /\ Len(frames') = warnings'[1]
        /\ (warnings # <<>> /\ pc # "return") =>
             /\ frames' = frames /\ warnings' = warnings
             /\ outcome' = "ok" ]_vars

\* C2's case: 5 frames declared, 2 complete frames of payload: 2 frames and
\* the warning for frame 2, no error.
C2_Witness ==
    /\ HeaderComplete /\ file.ints[3] = 5
    /\ outcome = "ok" /\ Len(frames) = 2 /\ warnings = <<2>>
    /\ remainingBytes(file) = 2 * frameByteSize

\* C3: with width <= 0 or height <= 0 in the header, the load fails: no
\* trajectory is returned, no frame is decoded and none reaches playback.
C3_InvalidDimensionsFatal ==
    (HeaderRead /\ (width <= 0 \/ height <= 0)) =>
        /\ outcome # "ok"
        /\ frames = <<>>
        /\ img = NoImage /\ updates = 0

\* Nothing was decoded, read from the payload or played.
NothingLoaded ==
    /\ frames = <<>> /\ off = 0 /\ warnings = <<>>
    /\ img = NoImage /\ updates = 0 /\ accessed = {} /\ mode = "none"

\* C4: a file whose first 4 bytes are not "SCHR" fails the load with the
\* magic error, and one with fewer than 12 bytes after the magic fails in
\* unpacking the header; either way the program ends there: no trajectory,
\* no frame bytes read, no playback.
C4_HeaderErrorsFatal ==
    /\ (file.exists /\ file.magic # Magic /\ pc \notin {"exists", "magic"}) =>
          (pc = "exit" /\ outcome = "BadMagic" /\ NothingLoaded)
    /\ (file.exists /\ file.magic = Magic /\ Len(file.ints) < 3
           /\ pc \notin {"exists", "magic", "header"}) =>
          (pc = "exit" /\ outcome = "struct.error" /\ NothingLoaded)
    /\ pc \in {"exists", "magic", "header"} => NothingLoaded

\* C4's case: the magic bytes "ABCD" before a well-formed rest.
C4_Witness ==
    /\ file.magic = "ABCD" /\ Len(file.payload) >= 2 /\ file.ints[3] >= 1
    /\ pc = "exit" /\ outcome = "BadMagic"

\* The payload a writer produces for frames fs of h rows and w columns
\* (docstring, lines 13-19): frame after frame, row-major, real then imag.
Encode(w, h, fs) ==
    [j \in 1..(Len(fs) * w * h * 2) |->
        LET p == (j - 1) \div 2
            k == p \div (w * h) + 1
            q == p % (w * h)
            r == q \div w + 1
            c == (q % w) + 1
        IN IF j % 2 = 1 THEN fs[k][r][c].re ELSE fs[k][r][c].im]

\* The file holds exactly the declared frames.
CompleteFile ==
    /\ ValidHeader
    /\ remainingBytes(file) = file.ints[3] * frameByteSize

\* C5: a file written as magic, (w, h, n) and n frames of h*w samples is
\* read back as the same w and h and exactly n frames of h rows and w
\* columns, the sample at row r, column c of frame k being the one at
\* position k*(w*h) + r*w + c of the payload; encoding what was read gives
\* the payload again.
C5_RoundTrip ==
    CompleteFile =>
        /\ outcome \in {"running", "ok"}
        /\ outcome = "ok" =>
            LET w == file.ints[1]
                h == file.ints[2]
                n == file.ints[3]
            IN /\ width = w /\ height = h /\ Len(frames) = n
               /\ \A k \in 1..n :
                    /\ Len(frames[k]) = h
                    /\ \A r \in 1..h :
                         /\ Len(frames[k][r]) = w
                         /\ \A c \in 1..w :
                              LET pos == (k - 1) * (w * h) + (r - 1) * w + (c - 1)
                              IN frames[k][r][c] =
                                   [re |-> file.payload[2 * pos + 1],
                                    im |-> file.payload[2 * pos + 2]]
               /\ Encode(width, height, frames) = file.payload

\* C5's case: one frame of 2 rows and 2 columns, read back.
C5_Witness ==
    /\ CompleteFile /\ outcome = "ok"
    /\ file.ints = <<2, 2, 1>> /\ Len(frames) = 1

Playing == pc \in {"saving", "showing"}

\* C6 as stated: once frame n-1 was handed over, no further frame is
\* rendered and the index does not go back to 0.
C6_StopsAtEnd ==
    [][ (Playing /\ seqPos = Len(frames)) =>
            (updates' = updates /\ seqPos' # 0) ]_vars

\* C6, amended: at the end of the trajectory the playback stops only when
\* saving (--save): no further frame is rendered and the program ends.
\* Shown in a window, the animation repeats: frame 0 is drawn again and the
\* index is back at 0, until the window is closed.
C6_StopsOnlyWhenSaving ==
    [][ (Playing /\ seqPos = Len(frames)) =>
            IF mode = "save"
            THEN pc' = "exit" /\ updates' = updates /\ img' = img /\ seqPos' = seqPos
            ELSE \/ pc' = "exit" /\ updates' = updates /\ img' = img
                 \/ /\ pc' = "showing" /\ seqPos' = 0
                    /\ updates' = updates + 1 /\ img'.idx = 0 ]_vars

\* C6's case: shown in a window, a pass has ended and the next has begun.
C6_Witness ==
    /\ mode = "show" /\ pc = "showing" /\ passes >= 1
    /\ seqPos = 1 /\ Len(frames) >= 2

C10_EmptyNeverPlayed ==
    (pc \notin {"exists", "magic", "header", "loop", "return"} /\ frames = <<>>) =>
        /\ pc \in {"check", "exit"}
        /\ accessed = {} /\ updates = 0 /\ img = NoImage
        /\ mode = "none" /\ delivered = <<>>

\* C10's case: the file ends before the first complete frame.
C10_Witness ==
    /\ outcome = "ok" /\ frames = <<>> /\ pc = "exit"
    /\ file.ints[3] > 0 /\ warnings = <<0>>

\* 0 <= x <= 1
In01(x) == ~Gt(Zero, x) /\ ~Gt(x, One)

\* C7: every channel complex_to_rgb returns lies in [0, 1].
C7_ChannelsInUnitInterval ==
    pc = "color_done" => \A k \in 1..3 : In01(pixel.rgb[k])

\* C7's case: a sample of amplitude above the threshold, converted.
C7_Witness ==
    /\ pc = "color_done" /\ sample = [re |-> 2, im |-> -1, e |-> 0]
    /\ \A k \in 1..3 : pixel.rgb[k].m > 0

\* |z| <= 1e-9 for z = (re + i im) * 10^-e, in exact arithmetic.
AmplitudeAtMostEps(z) ==
    IF z.e >= EpsExp
    THEN z.re * z.re + z.im * z.im <= Pow10(2 * (z.e - EpsExp))
    ELSE z.re = 0 /\ z.im = 0

\* C8: a sample of amplitude <= 1e-9 (1e-9 itself included) gives exactly
\* (0, 0, 0) and is not divided by its amplitude; any other sample takes
\* the luma/chroma path.
C8_NearZeroIsBlack ==
    pc = "color_done" =>
        IF AmplitudeAtMostEps(sample)
        THEN /\ \A k \in 1..3 : pixel.rgb[k].m = 0
             /\ ~pixel.divided
        ELSE /\ pixel.valid /\ pixel.divided
             /\ pixel.y.m > 0
             /\ \E k \in 1..3 : pixel.rgb[k].m > 0

\* C8's case: the amplitude is exactly 1e-9.
C8_Witness ==
    /\ pc = "color_done" /\ sample = [re |-> 0, im |-> -1, e |-> 9]
    /\ \A k \in 1..3 : pixel.rgb[k].m = 0

====
